---------------------------- MODULE Spec2Model ----------------------------
(***************************************************************************)
(* BacktestingEngine of backtesting.py: the single forward pass of         *)
(* run_backtest over an aligned price/signal series, the buy/sell          *)
(* transitions on cash, position and the trade log, and the drawdown and   *)
(* win-ratio computations of calculate_performance.                        *)
(*                                                                         *)
(* Money is a Python float in the source.  The model keeps it as an        *)
(* integer count of 1/Scale currency units.  Prices and the initial        *)
(* capital are whole currency amounts and the commission rate is a         *)
(* multiple of 1/Scale, so every sum, product and floor division of the    *)
(* simulation is exact in the model; with Scale a power of two it is       *)
(* exact in binary floating point as well.                                 *)
(***************************************************************************)
EXTENDS Integers, Sequences, FiniteSets, TLC

\* Longest input series (number of rows of self.data).
MaxN == 5

\* Money is counted in units of 1/Scale.
Scale == 4

\* Close prices the input rows are drawn from (whole currency amounts).
Prices == {9, 12}

\* Values of the "signal" column.  The signal generator emits -1 and +1;
\* the engine itself reads whatever integer the column holds.
Signals == {-1, 0, 1}

\* initial_capital arguments (whole currency amounts).
Capitals == {10, 22, 1000}

\* commission arguments, as numerators over Scale: 0 and 1/Scale.
Commissions == {0, 1}

VARIABLES
    data,              \* self.data: sequence of rows [Close, signal]
    initial_capital,   \* self.initial_capital (currency)
    commission,        \* self.commission (numerator over Scale)
    cash,              \* self.cash (units of 1/Scale)
    position,          \* self.position (shares held)
    trades,            \* self.trades: sequence of <<side, price, quantity>>
    portfolio_values,  \* self.portfolio_values (units of 1/Scale)
    i,                 \* loop index of run_backtest
    pc,                \* "loop", "done", "raised"
    final_value,       \* value returned by run_backtest (units of 1/Scale)
    performance,       \* value returned by the latest calculate_performance
    previous           \* value returned by the call before the latest

vars == <<data, initial_capital, commission, cash, position, trades,
          portfolio_values, i, pc, final_value, performance, previous>>

\* What a call has produced so far: nothing yet, or the value it returned.
Pending == [kind |-> "pending"]
Returned(v) == [kind |-> "returned", value |-> v]

\* The results of calculate_performance: None, or the metrics mapping.
None == [kind |-> "None"]

\* float(x) of a whole currency amount, in units of 1/Scale.
ToUnits(x) == x * Scale

\* Series.iloc[k] with Python's negative indexing; the caller guarantees
\* that the position exists.
iloc(k) == IF k >= 0 THEN data[k + 1] ELSE data[Len(data) + k + 1]

\* All series of rows of length 0..MaxN.
Rows == [Close : Prices, signal : Signals]
DataSets == UNION {[1..n -> Rows] : n \in 0..MaxN}

-----------------------------------------------------------------------------
\* The position state buy and sell act on.
Book(c, p, t) == [cash |-> c, position |-> p, trades |-> t]

\* buy without its "if self.position == 0" guard.
buy_unguarded(b, price) ==
    LET quantity == b.cash \div ToUnits(price)
    IN  IF quantity <= 0
        THEN b
        ELSE LET cost == quantity * ToUnits(price)
                 commission_cost == quantity * price * commission
             IN  Book(b.cash - (cost + commission_cost),
                      quantity,
                      Append(b.trades, <<"BUY", price, quantity>>))

\* buy without its "if quantity <= 0: return".
buy_any_quantity(b, price) ==
    IF b.position = 0
    THEN LET quantity == b.cash \div ToUnits(price)
             cost == quantity * ToUnits(price)
             commission_cost == quantity * price * commission
         IN  Book(b.cash - (cost + commission_cost),
                  quantity,
                  Append(b.trades, <<"BUY", price, quantity>>))
    ELSE b

\* BacktestingEngine.buy
buy(b, price) ==
    IF b.position = 0
    THEN LET quantity == b.cash \div ToUnits(price)
         IN  IF quantity <= 0
             THEN b
             ELSE LET cost == quantity * ToUnits(price)
                      commission_cost == quantity * price * commission
                  IN  Book(b.cash - (cost + commission_cost),
                           quantity,
                           Append(b.trades, <<"BUY", price, quantity>>))
    ELSE b

\* sell without its "if self.position > 0" guard.
sell_unguarded(b, price) ==
    LET quantity == b.position
        revenue == quantity * ToUnits(price)
        commission_cost == quantity * price * commission
    IN  Book(b.cash + (revenue - commission_cost),
             0,
             Append(b.trades, <<"SELL", price, quantity>>))

\* sell crediting the whole revenue, the commission forgotten.
sell_without_commission(b, price) ==
    IF b.position > 0
    THEN LET quantity == b.position
             revenue == quantity * ToUnits(price)
         IN  Book(b.cash + revenue,
                  0,
                  Append(b.trades, <<"SELL", price, quantity>>))
    ELSE b

\* BacktestingEngine.sell
sell(b, price) ==
    IF b.position > 0
    THEN LET quantity == b.position
             revenue == quantity * ToUnits(price)
             commission_cost == quantity * price * commission
         IN  Book(b.cash + (revenue - commission_cost),
                  0,
                  Append(b.trades, <<"SELL", price, quantity>>))
    ELSE b

\* The dispatch with the two crossover directions exchanged.
crossover_swapped(b, prev_signal, current_signal, price) ==
    IF prev_signal = 1 /\ current_signal = -1
    THEN buy(b, price)
    ELSE IF prev_signal = -1 /\ current_signal = 1
         THEN sell(b, price)
         ELSE b

\* The dispatch with the exit rule left out.
crossover_entry_only(b, prev_signal, current_signal, price) ==
    IF prev_signal = -1 /\ current_signal = 1
    THEN buy(b, price)
    ELSE b

\* The crossover dispatch of one loop iteration.
crossover(b, prev_signal, current_signal, price) ==
    IF prev_signal = -1 /\ current_signal = 1
    THEN buy(b, price)
    ELSE IF prev_signal = 1 /\ current_signal = -1
         THEN sell(b, price)
         ELSE b

\* The marked value with the holdings left out.
portfolio_value_cash_only(c, p, price) == c

\* portfolio_value = self.cash + self.position * price
portfolio_value(c, p, price) == c + p * ToUnits(price)

\* The loop range cut one index short: range(1, len(self.data) - 1).
in_range_short(k, n) == k < n - 1

\* range(1, len(self.data)) still has index k to visit.
in_range(k, n) == k < n

-----------------------------------------------------------------------------
Init ==
    /\ data \in DataSets
    /\ initial_capital \in Capitals
    /\ commission \in Commissions
    /\ cash = ToUnits(initial_capital)
    /\ position = 0
    /\ trades = <<>>
    /\ portfolio_values = <<>>
    /\ i = 1
    /\ pc = "loop"
    /\ final_value = Pending
    /\ performance = Pending
    /\ previous = Pending

\* One iteration of the for loop of run_backtest.
Step ==
    /\ pc = "loop"
    /\ in_range(i, Len(data))
    /\ LET price == iloc(i).Close
           prev_signal == iloc(i - 1).signal
           current_signal == iloc(i).signal
           b == crossover(Book(cash, position, trades),
                          prev_signal, current_signal, price)
       IN  /\ cash' = b.cash
           /\ position' = b.position
           /\ trades' = b.trades
           /\ portfolio_values' =
                  Append(portfolio_values,
                         portfolio_value(b.cash, b.position, price))
    /\ i' = i + 1
    /\ UNCHANGED <<data, initial_capital, commission, pc, final_value,
                   performance, previous>>

\* A return that first closes an open position at the last close.
Return_liquidating ==
    /\ pc = "loop"
    /\ ~in_range(i, Len(data))
    /\ IF Len(data) = 0
       THEN /\ pc' = "raised"
            /\ UNCHANGED <<final_value, cash, position, trades>>
       ELSE LET b == sell(Book(cash, position, trades), iloc(-1).Close)
            IN  /\ pc' = "done"
                /\ cash' = b.cash
                /\ position' = b.position
                /\ trades' = b.trades
                /\ final_value' = Returned(b.cash)
    /\ UNCHANGED <<data, initial_capital, commission, portfolio_values, i,
                   performance, previous>>

\* The loop is exhausted: read the last close and return.  On an empty
\* series iloc[-1] raises IndexError.
Return ==
    /\ pc = "loop"
    /\ ~in_range(i, Len(data))
    /\ IF Len(data) = 0
       THEN /\ pc' = "raised"
            /\ final_value' = final_value
       ELSE /\ pc' = "done"
            /\ final_value' =
                   Returned(cash + position * ToUnits(iloc(-1).Close))
    /\ UNCHANGED <<data, initial_capital, commission, cash, position, trades,
                   portfolio_values, i, performance, previous>>

-----------------------------------------------------------------------------
(***************************************************************************)
(* numpy / Python float results of a division.  A finite quotient is kept  *)
(* as the reduced fraction n/d with d > 0; a zero divisor gives nan or     *)
(* +/-inf as numpy does.  Rounding a quotient to the nearest float is      *)
(* monotone and keeps 0 and 1 fixed, so sign tests and comparisons with 0  *)
(* and 1 on the fraction agree with those on the float.                    *)
(***************************************************************************)
RECURSIVE GCD(_, _)
GCD(a, b) == IF b = 0 THEN a ELSE GCD(b, a % b)

Abs(x) == IF x < 0 THEN -x ELSE x

Num(n, d) == LET g == GCD(Abs(n), Abs(d))
                 s == IF d < 0 THEN -1 ELSE 1
             IN  [k |-> "num", n |-> s * (n \div g), d |-> s * (d \div g)]
NaN == [k |-> "nan", n |-> 0, d |-> 0]
Inf(sign) == [k |-> "inf", n |-> sign, d |-> 0]
Zero == Num(0, 1)

\* a / b on floats holding the integers a and b.
Divide(a, b) ==
    IF b = 0
    THEN IF a = 0 THEN NaN ELSE IF a > 0 THEN Inf(1) ELSE Inf(-1)
    ELSE Num(a, b)

\* x <= y on float results other than nan.
Leq(x, y) ==
    CASE x.k = "inf" -> x.n = -1 \/ (y.k = "inf" /\ y.n = 1)
      [] y.k = "inf" -> y.n = 1
      [] OTHER       -> x.n * y.d <= y.n * x.d

\* np.min of a non-empty array: nan as soon as one entry is nan.
np_min(a) ==
    IF \E k \in 1..Len(a) : a[k].k = "nan"
    THEN NaN
    ELSE LET m == CHOOSE k \in 1..Len(a) :
                      \A j \in 1..Len(a) : Leq(a[k], a[j])
         IN  a[m]

\* np.maximum.accumulate
RECURSIVE maximum_accumulate(_)
maximum_accumulate(a) ==
    IF Len(a) <= 1
    THEN a
    ELSE LET front == maximum_accumulate(SubSeq(a, 1, Len(a) - 1))
             top == front[Len(front)]
             x == a[Len(a)]
         IN  Append(front, IF x > top THEN x ELSE top)

\* Drawdown measured from the peak of the whole series instead of the
\* running peak.
max_drawdown_global_peak(pv) ==
    LET peak == maximum_accumulate(pv)[Len(pv)]
        drawdown == [k \in 1..Len(pv) |-> Divide(pv[k] - peak, peak)]
    IN  np_min(drawdown)

\* Max Drawdown of calculate_performance.
max_drawdown(pv) ==
    LET cumulative_max == maximum_accumulate(pv)
        drawdown == [k \in 1..Len(pv) |->
                        Divide(pv[k] - cumulative_max[k], cumulative_max[k])]
    IN  np_min(drawdown)

\* The profits list: one entry per index 1, 3, 5, ... of the trade log
\* (0-based), pairing it with the record before it.
profits(t) ==
    [k \in 1..(Len(t) \div 2) |->
        LET buy_price == t[2 * k - 1][2]
            sell_price == t[2 * k][2]
            qty == t[2 * k - 1][3]
        IN  (sell_price - buy_price) * qty]

\* Win Ratio without the "if profits else 0" fallback.
win_ratio_no_fallback(t) ==
    LET p == profits(t)
    IN  Divide(Cardinality({k \in 1..Len(p) : p[k] > 0}), Len(p))

\* Win Ratio with a break-even round trip counted as a win.
win_ratio_counting_breakeven(t) ==
    LET p == profits(t)
    IN  IF Len(p) > 0
        THEN Divide(Cardinality({k \in 1..Len(p) : p[k] >= 0}), Len(p))
        ELSE Zero

\* Win Ratio of calculate_performance.
win_ratio(t) ==
    LET p == profits(t)
    IN  IF Len(p) > 0
        THEN Divide(Cardinality({k \in 1..Len(p) : p[k] > 0}), Len(p))
        ELSE Zero

\* Trading periods per year, the 252 of the annualisation and of sqrt(252).
TradingDays == 252

\* The risk-free rate 0.02 of the Sharpe ratio, as a fraction.
RiskFreeRate == Num(2, 100)

\* returns = np.diff(portfolio_values) / portfolio_values[:-1]
daily_returns(pv) ==
    [k \in 1..(Len(pv) - 1) |-> Divide(pv[k + 1] - pv[k], pv[k])]

\* returns = returns[~np.isnan(returns)]
drop_nan(r) == SelectSeq(r, LAMBDA x : x.k # "nan")

\* total_return = (portfolio_values[-1] - initial_capital) / initial_capital
total_return(pv) ==
    Divide(pv[Len(pv)] - ToUnits(initial_capital), ToUnits(initial_capital))

(***************************************************************************)
(* annualized_return = (1 + total_return) ** (252 / len(self.data)) - 1    *)
(* on numpy floats.  A negative base under an exponent that is not a whole *)
(* number gives nan; a base of exactly 1 gives 1 and so a return of 0;     *)
(* every other finite result is kept as the unevaluated power.             *)
(***************************************************************************)
annualized_return(tr, n) ==
    CASE tr.k = "nan" -> NaN
      [] tr.k = "inf" ->
            IF tr.n = 1 THEN Inf(1)
            ELSE IF TradingDays % n # 0 THEN Inf(1)
            ELSE IF (TradingDays \div n) % 2 = 0 THEN Inf(1) ELSE Inf(-1)
      [] OTHER ->
            LET base == Num(tr.n + tr.d, tr.d)
            IN  IF base.n < 0 /\ TradingDays % n # 0
                THEN NaN
                ELSE IF base = Num(1, 1)
                     THEN Zero
                     ELSE [k |-> "power minus 1", base |-> base,
                           exponent |-> Num(TradingDays, n)]

(***************************************************************************)
(* volatility = np.std(returns) * np.sqrt(252).  np.std of an empty array  *)
(* and of an array holding an infinity is nan; the population standard     *)
(* deviation of finite values is 0 exactly when they are all equal, and    *)
(* is otherwise kept as the unevaluated positive number it is.             *)
(***************************************************************************)
volatility(r) ==
    IF Len(r) = 0 \/ \E k \in 1..Len(r) : r[k].k # "num"
    THEN NaN
    ELSE IF \A k \in 1..Len(r) : r[k] = r[1]
         THEN Zero
         ELSE [k |-> "std times sqrt", of |-> r, periods |-> TradingDays]

\* sharpe_ratio = (annualized_return - 0.02) / volatility
\*                if volatility != 0 else 0
\* (nan != 0 is true, so a nan volatility takes the quotient branch).
sharpe_ratio(ar, vol) ==
    IF vol # Zero
    THEN IF ar.k = "nan" \/ vol.k = "nan"
         THEN NaN
         ELSE IF ar.k = "inf"
              THEN ar
              ELSE [k |-> "quotient", excess |-> <<ar, RiskFreeRate>>,
                    by |-> vol]
    ELSE Zero

\* The names of the mapping calculate_performance returns.
MetricNames == {"total_return", "annualized_return", "volatility",
                "sharpe_ratio", "max_drawdown", "win_ratio"}

\* calculate_performance returning None only on an empty series.
calculate_performance_unless_empty ==
    IF Len(portfolio_values) < 1
    THEN None
    ELSE LET tr == total_return(portfolio_values)
             ar == annualized_return(tr, Len(data))
             vol == volatility(drop_nan(daily_returns(portfolio_values)))
         IN  [kind |-> "metrics",
              total_return |-> tr,
              annualized_return |-> ar,
              volatility |-> vol,
              sharpe_ratio |-> sharpe_ratio(ar, vol),
              max_drawdown |-> max_drawdown(portfolio_values),
              win_ratio |-> win_ratio(trades)]

\* The value calculate_performance returns for the engine's current state.
calculate_performance ==
    IF Len(portfolio_values) < 2
    THEN None
    ELSE LET tr == total_return(portfolio_values)
             ar == annualized_return(tr, Len(data))
             vol == volatility(drop_nan(daily_returns(portfolio_values)))
         IN  [kind |-> "metrics",
              total_return |-> tr,
              annualized_return |-> ar,
              volatility |-> vol,
              sharpe_ratio |-> sharpe_ratio(ar, vol),
              max_drawdown |-> max_drawdown(portfolio_values),
              win_ratio |-> win_ratio(trades)]

\* A call that also consumes the last entry of the series it read.
CalculatePerformance_consuming ==
    /\ pc = "done"
    /\ previous.kind = "pending"
    /\ previous' = performance
    /\ performance' = Returned(calculate_performance)
    /\ portfolio_values' =
           SubSeq(portfolio_values, 1, Len(portfolio_values) - 1)
    /\ UNCHANGED <<data, initial_capital, commission, cash, position, trades,
                   i, pc, final_value>>

\* calculate_performance is called once run_backtest has returned, as main
\* does, and may be called again on the same engine.
CalculatePerformance ==
    /\ pc = "done"
    /\ previous.kind = "pending"
    /\ previous' = performance
    /\ performance' = Returned(calculate_performance)
    /\ UNCHANGED <<data, initial_capital, commission, cash, position, trades,
                   portfolio_values, i, pc, final_value>>

Next == Step \/ Return \/ CalculatePerformance

Spec == Init /\ [][Next]_vars

-----------------------------------------------------------------------------
\* The worked example of the specification: its prices under every signal
\* series, every initial capital and every commission rate.
FixturePrices == <<10, 12, 9, 15>>
FixtureSignals == <<-1, 1, 1, -1>>
FixtureRows(sig) ==
    [k \in 1..Len(FixturePrices) |->
        [Close |-> FixturePrices[k], signal |-> sig[k]]]

InitFixture ==
    /\ data \in {FixtureRows(sig) : sig \in [1..Len(FixturePrices) -> Signals]}
    /\ initial_capital \in Capitals
    /\ commission \in Commissions
    /\ cash = ToUnits(initial_capital)
    /\ position = 0
    /\ trades = <<>>
    /\ portfolio_values = <<>>
    /\ i = 1
    /\ pc = "loop"
    /\ final_value = Pending
    /\ performance = Pending
    /\ previous = Pending

SpecFixture == InitFixture /\ [][Next]_vars

-----------------------------------------------------------------------------
\* A price collapse: a close of 12 and a close of a quarter of it, on an
\* engine whose capital buys exactly one share at 12.  With a commission the
\* marked value of that share can fall to 0 and below.
CrashPrices == {3, 12}
CrashCapitals == {12}
CrashRows == [Close : CrashPrices, signal : Signals]

InitCrash ==
    /\ data \in UNION {[1..n -> CrashRows] : n \in 0..MaxN}
    /\ initial_capital \in CrashCapitals
    /\ commission \in Commissions
    /\ cash = ToUnits(initial_capital)
    /\ position = 0
    /\ trades = <<>>
    /\ portfolio_values = <<>>
    /\ i = 1
    /\ pc = "loop"
    /\ final_value = Pending
    /\ performance = Pending
    /\ previous = Pending

SpecCrash == InitCrash /\ [][Next]_vars

-----------------------------------------------------------------------------
\* Helpers of the properties below.
Side(t) == t[1]
TradePrice(t) == t[2]
Quantity(t) == t[3]
LastTrade == trades[Len(trades)]
N == Len(data)
Finished == pc \in {"done", "raised"}
Max(a, b) == IF a >= b THEN a ELSE b

\* The BUY records that no SELL follows; the most recent one is the open buy.
UnmatchedBuys ==
    {k \in 1..Len(trades) :
        /\ Side(trades[k]) = "BUY"
        /\ \A j \in (k + 1)..Len(trades) : Side(trades[j]) # "SELL"}

MostRecent(S) == CHOOSE k \in S : \A j \in S : j <= k

\* The iteration about to run calls buy(): a -1 -> +1 crossover at index i.
BuyCrossoverNext ==
    /\ pc = "loop"
    /\ in_range(i, N)
    /\ iloc(i - 1).signal = -1
    /\ iloc(i).signal = 1

\* The iteration that has just run was a -1 -> +1 crossover.
BuyCrossoverJustRun ==
    /\ i >= 2
    /\ iloc(i - 2).signal = -1
    /\ iloc(i - 1).signal = 1

\* C1 (state part): shares held is 0 or the quantity of the most recent BUY
\* record that no SELL follows.
C1_HeldIsOpenBuy ==
    \/ position = 0
    \/ /\ UnmatchedBuys # {}
       /\ position = Quantity(trades[MostRecent(UnmatchedBuys)])

\* C1 (step part): while shares are held no step appends a BUY record, and a
\* step that calls buy() then leaves cash, position and trade log as they were.
C1_NoBuyWhileHeld ==
    /\ (position > 0 /\ Len(trades') > Len(trades))
          => Side(trades'[Len(trades')]) # "BUY"
    /\ (position > 0 /\ BuyCrossoverNext)
          => (cash' = cash /\ position' = position /\ trades' = trades)

\* C1: position exclusivity.  After every step of run_backtest shares held is
\* 0 or the quantity of the most recent unmatched BUY, and buy() neither
\* appends a BUY record nor changes cash while shares are held.
C1_PositionExclusivity == [](C1_HeldIsOpenBuy) /\ [][C1_NoBuyWhileHeld]_vars

\* C1 witness: a buy crossover has just run on an engine that already held
\* the shares of an earlier BUY (at another price), and it changed nothing.
C1_Witness ==
    /\ BuyCrossoverJustRun
    /\ position > 0
    /\ trades # <<>>
    /\ Side(LastTrade) = "BUY"
    /\ position = Quantity(LastTrade)
    /\ TradePrice(LastTrade) # iloc(i - 1).Close
    /\ cash >= ToUnits(iloc(i - 1).Close)

\* C2: the trade log strictly alternates BUY, SELL, BUY, SELL, ... starting
\* with BUY: a BUY at every even 0-based index, a SELL at every odd one.
C2_Alternation ==
    \A k \in 1..Len(trades) :
        Side(trades[k]) = IF (k - 1) % 2 = 0 THEN "BUY" ELSE "SELL"

\* C2 witness: a log that went BUY, SELL, BUY.
C2_Witness ==
    /\ Len(trades) >= 3
    /\ Side(trades[1]) = "BUY"
    /\ Side(trades[2]) = "SELL"
    /\ Side(trades[3]) = "BUY"

\* C3: with initialCapital > 0, prices > 0 and a commission rate in [0, 1),
\* cash is non-negative and shares held is a non-negative integer in every
\* state of run_backtest.
C3_NonNegativePosition ==
    (initial_capital > 0 /\ commission >= 0 /\ commission < Scale
        /\ \A k \in 1..N : data[k].Close > 0)
    => (cash >= 0 /\ position \in Nat)

\* C4: on fewer than 2 observations run_backtest completes without raising,
\* returns the initial capital and leaves the portfolio-value series and the
\* trade log empty.
C4_DegenerateInput ==
    (N < 2 /\ Finished)
    => /\ pc = "done"
       /\ final_value = Returned(ToUnits(initial_capital))
       /\ portfolio_values = <<>>
       /\ trades = <<>>

\* The signal series has no consecutive pair (-1, +1) and none (+1, -1).
NoSignalFlip ==
    \A k \in 1..(N - 1) :
        /\ ~(data[k].signal = -1 /\ data[k + 1].signal = 1)
        /\ ~(data[k].signal = 1 /\ data[k + 1].signal = -1)

\* C5: if the signal series never flips, then after run_backtest the trade
\* log is empty, shares held is 0 and the returned final value is the
\* initial capital exactly.
C5_NoSignalFlip ==
    (NoSignalFlip /\ Finished)
    => /\ trades = <<>>
       /\ position = 0
       /\ final_value = Returned(ToUnits(initial_capital))

\* C6: the value appended at step i is cash_i + sharesHeld_i * price_i, with
\* cash_i and sharesHeld_i the state after the rule of day i was applied.
C6_Conservation ==
    (i >= 2 /\ N >= 2)
    => /\ Len(portfolio_values) >= i - 1
       /\ portfolio_values[i - 1]
             = cash + position * ToUnits(iloc(i - 1).Close)

\* C6 witness: a value was recorded on a day that ended with shares held and
\* a negative cash balance.
C6_Witness ==
    /\ i >= 2
    /\ N >= 2
    /\ position > 0
    /\ cash < 0
    /\ Len(portfolio_values) = i - 1

\* C7: the portfolio-value series gets one entry per index 1..N-1, in
\* order and none for day 0: i - 1 entries while the loop is at index i, and
\* max(N-1, 0) entries once run_backtest has ended.
C7_SeriesLength ==
    /\ Len(portfolio_values) = i - 1
    /\ pc = "loop" => i <= Max(N, 1)
    /\ Finished => Len(portfolio_values) = Max(N - 1, 0)

\* C7 witness: run_backtest has ended on the longest input.
C7_Witness ==
    /\ pc = "done"
    /\ N = MaxN
    /\ Len(portfolio_values) = MaxN - 1

\* The engine of the worked example.
IsFixture ==
    /\ data = FixtureRows(FixtureSignals)
    /\ initial_capital = 1000
    /\ commission = 0

\* C8: on prices [10, 12, 9, 15], signals [-1, 1, 1, -1], capital 1000 and
\* commission 0: cash 4 after the BUY of 83 at 12, value 751 at day 2, value
\* 1249 at day 3, trades [(BUY,12,83), (SELL,15,83)] and final value 1249.
C8_Fixture ==
    IsFixture
    => /\ i = 2 => (trades = <<<<"BUY", 12, 83>>>> /\ cash = ToUnits(4))
       /\ i = 3 => (trades = <<<<"BUY", 12, 83>>>> /\ cash = ToUnits(4))
       /\ i >= 3 => portfolio_values[2] = ToUnits(751)
       /\ i >= 4 => portfolio_values[3] = ToUnits(1249)
       /\ i >= 4 => trades = <<<<"BUY", 12, 83>>, <<"SELL", 15, 83>>>>
       /\ pc = "loop" => i <= 4
       /\ pc # "loop" => (pc = "done" /\ i = 4
                          /\ final_value = Returned(ToUnits(1249)))

\* C8 witness: the worked example has run to its end.
C8_Witness ==
    /\ IsFixture
    /\ pc = "done"
    /\ Len(trades) = 2

\* The metrics mapping of a completed calculate_performance call.
HasMetrics ==
    /\ performance.kind = "returned"
    /\ performance.value.kind = "metrics"

NonDecreasing(a) == \A k \in 1..(Len(a) - 1) : a[k] <= a[k + 1]

DrawdownBound(m) ==
    /\ m.k = "num"
    /\ Leq(m, Zero)
    /\ (m = Zero <=> NonDecreasing(portfolio_values))

\* C9 as stated: for any non-empty portfolio-value series the Max Drawdown
\* computed by calculate_performance is <= 0, and 0 iff the series is
\* non-decreasing.
C9_DrawdownNonEmpty ==
    (performance.kind = "returned" /\ Len(portfolio_values) >= 1)
    => /\ performance.value.kind = "metrics"
       /\ DrawdownBound(performance.value.max_drawdown)

\* C9 amended: for any portfolio-value series of at least 2 entries the Max
\* Drawdown computed by calculate_performance is <= 0, and 0 iff the series
\* is non-decreasing.
C9_DrawdownBound ==
    (performance.kind = "returned" /\ Len(portfolio_values) >= 2)
    => /\ performance.value.kind = "metrics"
       /\ DrawdownBound(performance.value.max_drawdown)

\* C9 witness: a series that rose to a new peak after a fall, so its
\* drawdown is negative although its last value is its highest.
C9_Witness ==
    /\ HasMetrics
    /\ Len(portfolio_values) >= 3
    /\ portfolio_values[2] < portfolio_values[1]
    /\ portfolio_values[3] > portfolio_values[1]
    /\ performance.value.max_drawdown # Zero

\* C10: the Win Ratio computed by calculate_performance lies in [0, 1] and
\* is exactly 0 when the trade log has fewer than 2 entries.
C10_WinRatioBound ==
    HasMetrics
    => LET w == performance.value.win_ratio
       IN  /\ w.k = "num"
           /\ 0 <= w.n
           /\ w.n <= w.d
           /\ Len(trades) < 2 => w = Zero

\* C10 witness: one winning and one losing round trip give a ratio of 1/2.
C10_Witness ==
    /\ HasMetrics
    /\ Len(trades) = 4
    /\ performance.value.win_ratio = Num(1, 2)

\* C11: calculate_performance returns None exactly when the
\* portfolio-value series has fewer than 2 entries, and otherwise a mapping
\* of the six metrics; it never raises.
C11_NoneBelowTwo ==
    performance.kind = "returned"
    => /\ performance.value.kind \in {"None", "metrics"}
       /\ performance.value.kind = "None" <=> Len(portfolio_values) < 2
       /\ performance.value.kind = "metrics"
             => DOMAIN performance.value = MetricNames \cup {"kind"}

\* C11 witness: one engine got None on a one-entry series.
C11_Witness ==
    /\ performance.kind = "returned"
    /\ performance.value.kind = "None"
    /\ Len(portfolio_values) = 1

\* C12: once run_backtest has completed, two calls of calculate_performance
\* in a row return identical results, and a call leaves cash, shares held,
\* the trade log and the portfolio-value series unchanged.
C12_Idempotence ==
    /\ [](previous.kind = "returned" => performance = previous)
    /\ [][pc = "done"
            => UNCHANGED <<cash, position, trades, portfolio_values>>]_vars

\* C12 witness: two calls have returned, both with metrics.
C12_Witness ==
    /\ previous.kind = "returned"
    /\ previous.value.kind = "metrics"
    /\ performance.kind = "returned"
    /\ performance.value.kind = "metrics"

\* The array np.std is applied to.
KeptReturns == drop_nan(daily_returns(portfolio_values))

\* C13: every non-finite daily return, nan as well as +/-infinity, is
\* removed from the returns series before the standard deviation is taken.
C13_NonFiniteFiltered ==
    HasMetrics => \A k \in 1..Len(KeptReturns) : KeptReturns[k].k = "num"

\* C17: the Sharpe Ratio is (annualizedReturn - 0.02) / volatility when the
\* volatility is non-zero and exactly 0 otherwise, and is never nan.
C17_SharpeDefined ==
    HasMetrics
    => LET m == performance.value
       IN  /\ m.sharpe_ratio.k # "nan"
           /\ m.volatility = Zero => m.sharpe_ratio = Zero
           /\ m.volatility # Zero
                 => /\ m.sharpe_ratio.k = "quotient"
                    /\ m.sharpe_ratio.excess
                          = <<m.annualized_return, RiskFreeRate>>
                    /\ m.sharpe_ratio.by = m.volatility

\* The iteration about to run calls sell(): a +1 -> -1 crossover at index i.
SellCrossoverNext ==
    /\ pc = "loop"
    /\ in_range(i, N)
    /\ iloc(i - 1).signal = 1
    /\ iloc(i).signal = -1

\* An iteration of the loop is about to run.
StepNext == pc = "loop" /\ in_range(i, N)

\* The iteration about to run trades nothing: no crossover, a crossover the
\* position state blocks, or an entry whose floor(cash / price) is <= 0.
NoTradeNext ==
    \/ ~BuyCrossoverNext /\ ~SellCrossoverNext
    \/ BuyCrossoverNext /\ position # 0
    \/ SellCrossoverNext /\ ~(position > 0)
    \/ BuyCrossoverNext /\ cash \div ToUnits(iloc(i).Close) <= 0

AppendsOneTrade ==
    /\ Len(trades') = Len(trades) + 1
    /\ SubSeq(trades', 1, Len(trades)) = trades

\* C14: a step of run_backtest changes cash or shares held only if it appends
\* exactly one trade record, it appends at most one, and a step with no
\* crossover, a blocked crossover or an entry of quantity <= 0 leaves cash,
\* shares held and the trade log unchanged.
C14_StepFrame ==
    [][StepNext
        => /\ (cash' # cash \/ position' # position) => AppendsOneTrade
           /\ trades' = trades \/ AppendsOneTrade
           /\ NoTradeNext
                 => (cash' = cash /\ position' = position
                     /\ trades' = trades)]_vars

\* C14 witness: an entry crossover has just run on a flat engine whose cash
\* does not buy one share, and nothing was traded.
C14_Witness ==
    /\ BuyCrossoverJustRun
    /\ position = 0
    /\ trades = <<>>
    /\ cash = ToUnits(initial_capital)
    /\ cash \div ToUnits(iloc(i - 1).Close) <= 0
    /\ Len(portfolio_values) = i - 1

\* C15: for N >= 1 the value run_backtest returns is cash + sharesHeld *
\* price at the last index; an open position is not liquidated (shares held
\* stays > 0 and no trailing SELL is appended), and for N >= 2 the returned
\* value is the last entry of the portfolio-value series.
C15_NoForcedLiquidation ==
    /\ [](pc = "done"
            => /\ N >= 1
               /\ final_value
                     = Returned(cash + position * ToUnits(data[N].Close))
               /\ N >= 2 => final_value.value
                               = portfolio_values[Len(portfolio_values)]
               /\ position > 0 => (trades # <<>> /\ Side(LastTrade) = "BUY"))
    /\ [][(pc = "loop" /\ pc' # "loop")
            => UNCHANGED <<cash, position, trades>>]_vars

\* C15 witness: run_backtest has returned with a position still open, at a
\* last close other than the price it was bought at.
C15_Witness ==
    /\ pc = "done"
    /\ N >= 2
    /\ position > 0
    /\ Side(LastTrade) = "BUY"
    /\ TradePrice(LastTrade) # data[N].Close
    /\ final_value.value = cash + position * ToUnits(data[N].Close)

\* trades[k] with the 0-based index of the source.
Trade0(k) == trades[k + 1]

\* Closed pairs of the trade log: floor(len(trades) / 2).
ClosedPairs == Len(trades) \div 2

\* Pairs (trades[2k], trades[2k+1]) with
\* (sellPrice_k - buyPrice_k) * buyQuantity_k > 0.
WinningPairs ==
    {k \in 0..(ClosedPairs - 1) :
        (TradePrice(Trade0(2 * k + 1)) - TradePrice(Trade0(2 * k)))
            * Quantity(Trade0(2 * k)) > 0}

\* C16: the Win Ratio pairs trades as (trades[2k], trades[2k+1]) for
\* k = 0..floor(len/2)-1, leaves an unmatched trailing BUY out, and is
\* count(profit_k > 0) / floor(len/2), or 0 when there is no closed pair.
C16_WinRatioPairing ==
    HasMetrics
    => performance.value.win_ratio
          = IF ClosedPairs = 0
            THEN Zero
            ELSE Num(Cardinality(WinningPairs), ClosedPairs)

\* C16 witness: one winning round trip followed by an unmatched BUY gives a
\* ratio of 1.
C16_Witness ==
    /\ HasMetrics
    /\ Len(trades) = 3
    /\ Side(trades[3]) = "BUY"
    /\ performance.value.win_ratio = Num(1, 1)

\* C18: at a step where a BUY or SELL of quantity q executes at price p, the
\* value recorded for the step is the pre-trade mark-to-market value
\* cash + shares * p less commissionRate * q * p: unchanged by the trade
\* when the rate is 0, and never increased by it.
C18_CommissionAccounting ==
    [][(StepNext /\ AppendsOneTrade)
        => LET t == trades'[Len(trades')]
               p == TradePrice(t)
               q == Quantity(t)
               before == cash + position * ToUnits(p)
               recorded == portfolio_values'[Len(portfolio_values')]
           IN  /\ p = iloc(i).Close
               /\ q > 0
               /\ recorded = before - commission * q * p
               /\ commission = 0 => recorded = before
               /\ recorded <= before]_vars

\* C18 witness: the first step bought under a non-zero commission, and the
\* value it recorded is the initial capital less the commission on the cost.
C18_Witness ==
    /\ i = 2
    /\ Len(trades) = 1
    /\ commission > 0
    /\ Len(portfolio_values) = 1
    /\ portfolio_values[1]
          = ToUnits(initial_capital)
            - commission * Quantity(trades[1]) * TradePrice(trades[1])
    /\ portfolio_values[1] < ToUnits(initial_capital)

\* Every signal of the series is -1 or +1.
SignalsPlusMinusOne == \A k \in 1..N : data[k].signal \in {-1, 1}

\* C19: for a signal series over {-1, +1}, after every step i of
\* run_backtest shares held > 0 implies signal_i = +1.
C19_LongOnlyOnPlusOne ==
    (SignalsPlusMinusOne /\ i >= 2 /\ N >= 2 /\ position > 0)
    => iloc(i - 1).signal = 1

\* C19 witness: shares are held on a +1 day some days after the entry, on a
\* series of -1 and +1 only.
C19_Witness ==
    /\ SignalsPlusMinusOne
    /\ i >= 4
    /\ N >= 4
    /\ position > 0
    /\ iloc(i - 1).signal = 1
    /\ Len(trades) = 3

=============================================================================
